---- MODULE Spec2Model ----
(***************************************************************************)
(* Model of atomkraft's Testnet orchestrator (atomkraft/chain/testnet.py): *)
(* the genesis ceremony driven by prepare(), the lifecycle calls spinup(), *)
(* oneshot() and teardown(), and broadcast_transaction().                  *)
(*                                                                         *)
(* Node (chain/node.py), get_free_ports and update_port (chain/utils.py)   *)
(* and the chain binary are collaborators of Testnet; their behaviour is   *)
(* modelled from the specification's component descriptions.               *)
(***************************************************************************)
EXTENDS Integers, Sequences, FiniteSets, TLC

(* ------------------------------ bounds --------------------------------- *)

\* Largest number of validators a Testnet is constructed with.
MaxValidators == 3

\* Largest number of plain accounts a Testnet is constructed with.
MaxAccounts == 1

\* Largest number of broadcast_transaction calls made against one Testnet.
MaxBroadcasts == 3

(* --------------------------- the state --------------------------------- *)

VARIABLES
    validator_ids,     \* Testnet._validator_ids (ordered)
    account_ids,       \* Testnet._account_ids (ordered)
    account_balance,   \* Testnet.account_balance
    validator_balance, \* Testnet.validator_balance
    config_genesis,    \* Testnet.config_genesis: set of <<key, value>>
    config_node,       \* Testnet.config_node: set of <<key, value>>
    has_nodes,         \* whether the attribute Testnet.validator_nodes exists
    validator_nodes,   \* Testnet.validator_nodes: id -> node record
    all_ports,         \* prepare()'s local list of port blocks
    imports,           \* the copy_gentx_from calls made: <<importer, peer>>
    collects,          \* the nodes collect_gentx was invoked on by the latest prepare()
    pc,                \* position of the orchestrator inside the running call
    call,              \* the API call in progress ("none" when idle)
    last_call,         \* the API call that finished last
    outcome,           \* how it finished: "none", "ok" or the error raised
    failed_step,       \* the ceremony step that failed in the latest prepare()
    started_in_call,   \* node.start() invocations made by the latest call
    chain_seq,         \* the chain: committed sequence number per account
    mempool,           \* the chain: submitted, not yet committed transactions
    clients,           \* one record per caller of broadcast_transaction
    accounts,          \* Testnet.accounts: id -> account record (its mnemonic)
    ready              \* the started nodes whose query interface responds

testnet_vars == <<validator_ids, account_ids, account_balance, validator_balance,
                  config_genesis, config_node, has_nodes, validator_nodes,
                  all_ports, imports, collects, pc, call, last_call, outcome,
                  failed_step, started_in_call>>

chain_vars == <<chain_seq, mempool, clients, accounts, ready>>

vars == <<validator_ids, account_ids, account_balance, validator_balance,
          config_genesis, config_node, has_nodes, validator_nodes,
          all_ports, imports, collects, pc, call, last_call, outcome,
          failed_step, started_in_call,
          chain_seq, mempool, clients, accounts, ready>>

(* --------------------- Testnet: static tables -------------------------- *)

\* Testnet.ports(): the declared port roles, in the dict's insertion order.
Roles == <<"p2p", "abci", "pprof_laddr", "rpc", "prometheus", "lcd", "grpc", "grpc-web">>

RoleSet == {Roles[k] : k \in 1..Len(Roles)}

\* The listening addresses the binary's init writes into every node's config.
DefaultAddress ==
    [r \in RoleSet |->
        CASE r = "p2p"         -> [host |-> "tcp://0.0.0.0",   port |-> 26656]
          [] r = "abci"        -> [host |-> "tcp://127.0.0.1", port |-> 26658]
          [] r = "pprof_laddr" -> [host |-> "localhost",       port |-> 6060]
          [] r = "rpc"         -> [host |-> "tcp://127.0.0.1", port |-> 26657]
          [] r = "prometheus"  -> [host |-> "",                port |-> 26660]
          [] r = "lcd"         -> [host |-> "tcp://0.0.0.0",   port |-> 1317]
          [] r = "grpc"        -> [host |-> "0.0.0.0",         port |-> 9090]
          [] OTHER             -> [host |-> "0.0.0.0",         port |-> 9091]]

(* ----------------------- chain/utils.py helpers ------------------------ *)

\* get_free_ports(n): n ports the operating system reports free, found by
\* binding to a system-chosen port.  The allocator's contract is n
\* conflict-free ports: pairwise distinct and, being ephemeral, none of the
\* binary's defaults; which ones they are is up to the system.
get_free_ports(n) ==
    {[k \in 1..n |-> 40000 + k], [k \in 1..n |-> 50000 + (n - k)]}

\* update_port(x, port): the address x with its port replaced, host kept.
update_port(x, port) == [x EXCEPT !.port = port]

\* numpy reshape((-1, w)).tolist(): the flat list cut into rows of w entries.
Reshape(flat, w) ==
    [r \in 1..(Len(flat) \div w) |-> [c \in 1..w |-> flat[(r - 1) * w + c]]]

(* ------------------------- chain/node.py: Node ------------------------- *)

NoGenesis == [origin |-> -1, params |-> {}, balances |-> {}, gen_txs |-> {}]

NoConfig == [r \in RoleSet |-> [host |-> "", port |-> 0]]

\* Node(...): a node record over a fresh working directory, no process yet.
Node(id) ==
    [moniker |-> id, inited |-> FALSE, genesis |-> NoGenesis, config |-> NoConfig,
     other |-> "unset", keys |-> {}, gentx |-> {}, proc |-> "none"]

\* Node.init(): the binary writes its default genesis and config documents.
\* Each node's default genesis is its own (origin), unlike any other node's.
NodeInit(node) ==
    [node EXCEPT !.inited = TRUE,
                 !.genesis = [origin |-> node.moniker,
                              params |-> {<<"param", "default">>},
                              balances |-> {}, gen_txs |-> {}],
                 !.config = DefaultAddress,
                 !.other = "default"]

\* Node.set(genesis.json, v, k): one genesis parameter overwritten.
SetGenesisParam(node, k, v) ==
    [node EXCEPT !.genesis.params = {p \in @ : p[1] # k} \cup {<<k, v>>}]

\* Node.add_account(coin, account): the account funded in the local genesis.
add_account(node, amount, group, id) ==
    [node EXCEPT !.genesis.balances =
        @ \cup {[group |-> group, id |-> id, amount |-> amount]}]

\* Node.copy_genesis_from(other): the local genesis overwritten by other's.
copy_genesis_from(node, other) == [node EXCEPT !.genesis = other.genesis]

\* What a signature covers of a gentx: everything but the signature.
Content(g) == [val |-> g.val, stake |-> g.stake, memo |-> g.memo]

\* Node.add_key + Node.add_validator(coin, account): a self-staking
\* transaction signed by the account, staged in the node's gentx directory.
\* The binary writes the default p2p port into the memo.
add_validator(node, amount, id) ==
    LET body == [val |-> id, stake |-> amount,
                 memo |-> [host |-> node.moniker,
                           port |-> DefaultAddress["p2p"].port]]
    IN [node EXCEPT !.keys = @ \cup {id},
                    !.gentx = @ \cup {[val |-> body.val, stake |-> body.stake,
                                       memo |-> body.memo,
                                       sig |-> [by |-> id, over |-> body]]}]

\* The gentx files a node produced itself (glob of its gentx directory at
\* the time the memo is rewritten: nothing has been imported yet).
OwnGentx(node, id) == {g \in node.gentx : g.val = id}

\* Node.update(gentx_file, update_port(., port), "body.memo")
rewrite_memo(node, id, port) ==
    [node EXCEPT !.gentx =
        {IF g.val = id THEN [g EXCEPT !.memo = update_port(@, port)] ELSE g : g \in @}]

\* Node.sign(account, file): the file signed anew over its current content.
sign(node, id) ==
    [node EXCEPT !.gentx =
        {IF g.val = id THEN [g EXCEPT !.sig = [by |-> id, over |-> Content(g)]]
                       ELSE g : g \in @}]

\* Node.copy_gentx_from(other): other's own gentx imported into the local
\* gentx directory.
copy_gentx_from(node, other) ==
    [node EXCEPT !.gentx = @ \cup OwnGentx(other, other.moniker)]

\* A gentx validates on a node iff its signature is its validator's and
\* covers the current content.
ValidGentx(g) == g.sig = [by |-> g.val, over |-> Content(g)]

\* collect_gentx succeeds iff every gentx present validates and every
\* validator funded in the genesis has its gentx present.
CollectOk(node) ==
    /\ \A g \in node.gentx : ValidGentx(g)
    /\ \A b \in node.genesis.balances :
          b.group = "val" => \E g \in node.gentx : g.val = b.id

\* Node.collect_gentx(): every locally present gentx folded into the genesis.
collect_gentx(node) ==
    [node EXCEPT !.genesis.gen_txs = {Content(g) : g \in node.gentx}]

\* Node.start(): the long-running process spawned.
NodeStart(node) == [node EXCEPT !.proc = "running"]

\* Node.close(): the process terminated; a no-op on a node without one.
NodeClose(node) ==
    [node EXCEPT !.proc = IF @ = "running" THEN "closed" ELSE @]

(* ------------------------ Testnet: construction ------------------------ *)

\* set_validators / set_accounts with an int argument: list(range(n)).
Range(n) == [k \in 1..n |-> k - 1]

\* set_validators with a list argument: the caller's own ordering.
ListedValidators == <<1, 0>>

ValidatorInputs ==
    {Range(n) : n \in 1..MaxValidators} \cup {ListedValidators}

\* The config_genesis and config_node overrides a Testnet is constructed with.
OverrideInputs ==
    {[genesis |-> {}, node |-> {}],
     [genesis |-> {<<"param", "custom">>}, node |-> {<<"other", "custom">>}]}

AccountInputs == {Range(n) : n \in 0..MaxAccounts}

N == Len(validator_ids)

\* Testnet._lead_validator
lead == validator_ids[1]

Ids == {validator_ids[k] : k \in 1..N}

At(op, i, j) == [op |-> op, i |-> i, j |-> j]

Idle == At("idle", 0, 0)

TestnetInit ==
    /\ validator_ids \in ValidatorInputs
    /\ account_ids \in AccountInputs
    /\ account_balance = 2
    /\ validator_balance = 1
    /\ \E o \in OverrideInputs : config_genesis = o.genesis /\ config_node = o.node
    /\ has_nodes = FALSE
    /\ validator_nodes = << >>
    /\ all_ports = << >>
    /\ imports = {}
    /\ collects = {}
    /\ pc = Idle
    /\ call = "none"
    /\ last_call = "none"
    /\ outcome = "none"
    /\ failed_step = "none"
    /\ started_in_call = 0

(* ---------------------- Testnet.prepare(): control --------------------- *)

\* The ceremony's steps in program order; a loop is a step with an index.
\* NextPc gives the position after the step at p has been executed.
AfterCollect == IF call = "oneshot" THEN At("start", 1, 0) ELSE Idle

\* Variant: the collect loop entered after the first importer's row.
ExchangeNextOneRow(i, j) ==
    IF j < N THEN At("exchange", i, j + 1) ELSE At("collect", 1, 0)

ExchangeNext(i, j) ==
    IF j < N THEN At("exchange", i, j + 1)
    ELSE IF i < N THEN At("exchange", i + 1, 1)
    ELSE At("collect", 1, 0)

AddValidatorNext(i) ==
    IF i < N THEN At("add_validator", i + 1, 0) ELSE At("exchange", 1, 1)

\* Variant: the rewritten gentx is left as it is, not signed again.
AfterRewriteUnsigned(i) == AddValidatorNext(i)

\* Line 268: after the memo rewrite of node i comes its re-signing.
AfterRewrite(i) == At("sign", i, 0)

NextPc(p) ==
    CASE p.op = "begin" -> At("init", 1, 0)
      [] p.op = "init" ->
            IF p.i < N THEN At("init", p.i + 1, 0) ELSE At("set_genesis", 0, 0)
      [] p.op = "set_genesis" -> At("fund_validator", 1, 0)
      [] p.op = "fund_validator" ->
            IF p.i < N THEN At("fund_validator", p.i + 1, 0)
            ELSE IF Len(account_ids) > 0 THEN At("fund_account", 1, 0)
            ELSE At("copy_genesis", 1, 0)
      [] p.op = "fund_account" ->
            IF p.i < Len(account_ids) THEN At("fund_account", p.i + 1, 0)
            ELSE At("copy_genesis", 1, 0)
      [] p.op = "copy_genesis" ->
            IF p.i < N THEN At("copy_genesis", p.i + 1, 0) ELSE At("alloc_ports", 0, 0)
      [] p.op = "alloc_ports" -> At("configure", 1, 0)
      [] p.op = "configure" ->
            IF p.i < N THEN At("configure", p.i + 1, 0) ELSE At("add_validator", 1, 0)
      [] p.op = "add_validator" ->
            IF validator_ids[p.i] # lead THEN At("rewrite_memo", p.i, 0)
            ELSE AddValidatorNext(p.i)
      [] p.op = "rewrite_memo" -> AfterRewrite(p.i)
      [] p.op = "sign" -> AddValidatorNext(p.i)
      [] p.op = "exchange" -> ExchangeNext(p.i, p.j)
      [] p.op = "collect" ->
            IF p.i < N THEN At("collect", p.i + 1, 0) ELSE AfterCollect
      [] OTHER -> Idle

CeremonyOps ==
    {"begin", "init", "set_genesis", "fund_validator", "fund_account", "copy_genesis",
     "alloc_ports", "configure", "add_validator", "rewrite_memo", "sign", "exchange",
     "collect"}

InPrepare == call \in {"prepare", "oneshot"} /\ pc.op \in CeremonyOps

\* A call returns to its caller: normally, or by raising err.
Return(result) ==
    /\ pc' = Idle
    /\ call' = "none"
    /\ last_call' = call
    /\ outcome' = result

\* The call moves on to position p, or returns normally when p is Idle.
Goto(p) ==
    IF p = Idle THEN Return("ok")
    ELSE pc' = p /\ UNCHANGED <<call, last_call, outcome>>

(* ----------------------- Testnet.prepare(): steps ---------------------- *)

NodeAt(i) == validator_nodes[validator_ids[i]]

SetNode(id, node) == validator_nodes' = [validator_nodes EXCEPT ![id] = node]

\* A call begins only when the orchestrator is idle.
BeginCall(name, p) ==
    /\ call = "none"
    /\ call' = name
    /\ pc' = p
    /\ failed_step' = IF name \in {"prepare", "oneshot"} THEN "none" ELSE failed_step
    /\ started_in_call' = 0
    /\ UNCHANGED <<last_call, outcome>>

CallPrepare ==
    /\ BeginCall("prepare", At("begin", 0, 0))
    /\ UNCHANGED <<validator_ids, account_ids, account_balance, validator_balance,
                   config_genesis, config_node, has_nodes, validator_nodes,
                   all_ports, imports, collects, chain_vars>>

\* oneshot(): prepare() then spinup().
CallOneshot ==
    /\ BeginCall("oneshot", At("begin", 0, 0))
    /\ UNCHANGED <<validator_ids, account_ids, account_balance, validator_balance,
                   config_genesis, config_node, has_nodes, validator_nodes,
                   all_ports, imports, collects, chain_vars>>

\* What a step leaves alone besides the node records and the position.
StepFrame ==
    UNCHANGED <<validator_ids, account_ids, account_balance, validator_balance,
                config_genesis, config_node, failed_step, started_in_call,
                chain_vars>>

\* finalize_accounts(), data_dir.mkdir(), validator_nodes = {id: Node(...)}
PrepareBegin ==
    /\ InPrepare /\ pc.op = "begin"
    /\ has_nodes' = TRUE
    /\ validator_nodes' = [id \in Ids |-> Node(id)]
    /\ all_ports' = << >>
    /\ imports' = {}
    /\ collects' = {}
    /\ Goto(NextPc(pc))
    /\ StepFrame

\* for node in validator_nodes.values(): node.init()
StepInit ==
    /\ InPrepare /\ pc.op = "init"
    /\ SetNode(validator_ids[pc.i], NodeInit(NodeAt(pc.i)))
    /\ Goto(NextPc(pc))
    /\ UNCHANGED <<has_nodes, all_ports, imports, collects>>
    /\ StepFrame

\* Variant: the last validator taken for the lead.
FundedNodeLast == validator_ids[N]

\* The node the genesis overrides and add_account are applied to.
FundedNode == lead

ApplyGenesisOverrides(node, overrides) ==
    IF overrides = {} THEN node
    ELSE LET o == CHOOSE o \in overrides : TRUE IN SetGenesisParam(node, o[1], o[2])

\* for (k, v) in config_genesis.items(): lead.set(genesis.json, v, k)
StepSetGenesis ==
    /\ InPrepare /\ pc.op = "set_genesis"
    /\ SetNode(FundedNode, ApplyGenesisOverrides(validator_nodes[FundedNode], config_genesis))
    /\ Goto(NextPc(pc))
    /\ UNCHANGED <<has_nodes, all_ports, imports, collects>>
    /\ StepFrame

\* for validator in validators.values(): lead.add_account(account_balance, validator)
StepFundValidator ==
    /\ InPrepare /\ pc.op = "fund_validator"
    /\ SetNode(FundedNode, add_account(validator_nodes[FundedNode], account_balance,
                                       "val", validator_ids[pc.i]))
    /\ Goto(NextPc(pc))
    /\ UNCHANGED <<has_nodes, all_ports, imports, collects>>
    /\ StepFrame

\* for account in accounts.values(): lead.add_account(account_balance, account)
StepFundAccount ==
    /\ InPrepare /\ pc.op = "fund_account"
    /\ SetNode(FundedNode, add_account(validator_nodes[FundedNode], account_balance,
                                       "acc", account_ids[pc.i]))
    /\ Goto(NextPc(pc))
    /\ UNCHANGED <<has_nodes, all_ports, imports, collects>>
    /\ StepFrame

\* Variant: the copy loop stops one node short.
CopiesGenesisButLast(id) == id # lead /\ id # validator_ids[N]

\* Whether the node with this id takes its genesis from the lead.
CopiesGenesis(id) == id # lead

\* if node_id != lead: node.copy_genesis_from(lead_node)
StepCopyGenesis ==
    /\ InPrepare /\ pc.op = "copy_genesis"
    /\ LET id == validator_ids[pc.i] IN
          SetNode(id, IF CopiesGenesis(id)
                      THEN copy_genesis_from(validator_nodes[id], validator_nodes[lead])
                      ELSE validator_nodes[id])
    /\ Goto(NextPc(pc))
    /\ UNCHANGED <<has_nodes, all_ports, imports, collects>>
    /\ StepFrame

\* Variant: one block requested for every node, the lead included.
PortsRequestedPerNode == Len(Roles) * N

\* How many ports prepare() asks get_free_ports for.
PortsRequested == Len(Roles) * (N - 1)

\* all_ports = np.array(get_free_ports(...)).reshape((-1, len(ports()))).tolist()
StepAllocPorts ==
    /\ InPrepare /\ pc.op = "alloc_ports"
    /\ \E flat \in get_free_ports(PortsRequested) :
          all_ports' = Reshape(flat, Len(Roles))
    /\ Goto(NextPc(pc))
    /\ UNCHANGED <<has_nodes, validator_nodes, imports, collects>>
    /\ StepFrame

\* Variant: the last block read but left in the list.
PeekBlock(blocks) == [block |-> blocks[Len(blocks)], rest |-> blocks]

\* all_ports.pop(): the last block, removed from the list.
PopBlock(blocks) ==
    [block |-> blocks[Len(blocks)], rest |-> SubSeq(blocks, 1, Len(blocks) - 1)]

\* for (j, e_port) in enumerate(ports().values()): update(..., ports[j], ...)
RewritePorts(node, ports) ==
    [node EXCEPT !.config =
        [r \in RoleSet |->
            LET j == CHOOSE j \in 1..Len(Roles) : Roles[j] = r
            IN update_port(node.config[r], ports[j])]]

\* for (k, v) in configs.items(): node.set(config/<file>.toml, v, k)
ApplyNodeOverrides(node, overrides) ==
    IF overrides = {} THEN node
    ELSE LET o == CHOOSE o \in overrides : TRUE IN [node EXCEPT !.other = o[2]]

\* Variant: every node's port fields rewritten, the lead's too.
GetsFreshPortsAll(id) == TRUE

\* Whether the port fields of the node with this id are rewritten.
GetsFreshPorts(id) == id # lead

\* One iteration of the loop at lines 201-222: the declared overrides, then
\* for a non-lead node a popped block of ports written into its config.
StepConfigure ==
    /\ InPrepare /\ pc.op = "configure"
    /\ LET id == validator_ids[pc.i]
           node == ApplyNodeOverrides(validator_nodes[id], config_node)
       IN IF ~GetsFreshPorts(id)
          THEN /\ SetNode(id, node)
               /\ Goto(NextPc(pc))
               /\ UNCHANGED <<all_ports, failed_step>>
          ELSE IF Len(all_ports) = 0
          THEN \* pop from an empty list: IndexError
               /\ SetNode(id, node)
               /\ Return("IndexError")
               /\ failed_step' = "configure"
               /\ UNCHANGED all_ports
          ELSE /\ SetNode(id, RewritePorts(node, PopBlock(all_ports).block))
               /\ all_ports' = PopBlock(all_ports).rest
               /\ Goto(NextPc(pc))
               /\ UNCHANGED failed_step
    /\ UNCHANGED <<has_nodes, imports, collects>>
    /\ UNCHANGED <<validator_ids, account_ids, account_balance, validator_balance,
                   config_genesis, config_node, started_in_call, chain_vars>>

\* Variant: the self-stake taken from the funding amount.
StakeAsFunded == account_balance

\* Coin(self.validator_balance, self.denom): the self-stake of every validator.
Stake == validator_balance

\* node.add_key(validator); node.add_validator(Coin(validator_balance), validator)
StepAddValidator ==
    /\ InPrepare /\ pc.op = "add_validator"
    /\ LET id == validator_ids[pc.i] IN
          SetNode(id, add_validator(validator_nodes[id], Stake, id))
    /\ Goto(NextPc(pc))
    /\ UNCHANGED <<has_nodes, all_ports, imports, collects>>
    /\ StepFrame

\* Variant: the port read from the rpc listening address.
MemoPortRpc(node) == node.config["rpc"].port

\* node_p2p = node.get(p2p.config_file, p2p.property_path).rsplit(":")[-1]
MemoPort(node) == node.config["p2p"].port

\* node.update(gentx_file, lambda x: update_port(x, node_p2p), "body.memo")
StepRewriteMemo ==
    /\ InPrepare /\ pc.op = "rewrite_memo"
    /\ LET id == validator_ids[pc.i]
           node_p2p == MemoPort(validator_nodes[id])
       IN SetNode(id, rewrite_memo(validator_nodes[id], id, node_p2p))
    /\ Goto(NextPc(pc))
    /\ UNCHANGED <<has_nodes, all_ports, imports, collects>>
    /\ StepFrame

\* node.sign(validators[node_id], gentx_file)
StepSign ==
    /\ InPrepare /\ pc.op = "sign"
    /\ LET id == validator_ids[pc.i] IN SetNode(id, sign(validator_nodes[id], id))
    /\ Goto(NextPc(pc))
    /\ UNCHANGED <<has_nodes, all_ports, imports, collects>>
    /\ StepFrame

\* Variant: a star exchange, every node importing from the lead only.
ImportsFromLead(id_a, id_b) == id_a # id_b /\ id_b = lead

\* The guard of the exchange: which ordered pairs import.
Imports(id_a, id_b) == id_a # id_b

\* for a: for b: if id_a != id_b: node_a.copy_gentx_from(node_b)
StepExchange ==
    /\ InPrepare /\ pc.op = "exchange"
    /\ LET id_a == validator_ids[pc.i]
           id_b == validator_ids[pc.j]
       IN IF Imports(id_a, id_b)
          THEN /\ SetNode(id_a, copy_gentx_from(validator_nodes[id_a], validator_nodes[id_b]))
               /\ imports' = imports \cup {<<id_a, id_b>>}
          ELSE UNCHANGED <<validator_nodes, imports>>
    /\ Goto(NextPc(pc))
    /\ UNCHANGED <<has_nodes, all_ports, collects>>
    /\ StepFrame

\* for node in validator_nodes.values(): node.collect_gentx()
StepCollect ==
    /\ InPrepare /\ pc.op = "collect"
    /\ LET id == validator_ids[pc.i] IN
          IF CollectOk(validator_nodes[id])
          THEN /\ SetNode(id, collect_gentx(validator_nodes[id]))
               /\ collects' = collects \cup {id}
               /\ Goto(NextPc(pc))
               /\ UNCHANGED failed_step
          ELSE /\ Return("BootstrapFailure")
               /\ failed_step' = "collect"
               /\ UNCHANGED <<validator_nodes, collects>>
    /\ UNCHANGED <<has_nodes, all_ports, imports>>
    /\ UNCHANGED <<validator_ids, account_ids, account_balance, validator_balance,
                   config_genesis, config_node, started_in_call, chain_vars>>

\* Variant: the error is swallowed and the ceremony goes on.
AfterFailureSwallowed(p) == NextPc(p)

\* Where prepare() goes when the step at p raises: it has no handler, so the
\* error leaves prepare() (and oneshot()) at once.
AfterFailure(p) == Idle

\* A ceremony step fails (the subprocess exits nonzero, a file is missing).
StepFails ==
    /\ InPrepare
    /\ failed_step' = pc.op
    /\ IF AfterFailure(pc) = Idle
       THEN Return("ProcessError")
       ELSE pc' = AfterFailure(pc) /\ UNCHANGED <<call, last_call, outcome>>
    /\ UNCHANGED <<validator_ids, account_ids, account_balance, validator_balance,
                   config_genesis, config_node, has_nodes, validator_nodes,
                   all_ports, imports, collects, started_in_call, chain_vars>>

(* ------------------- spinup(), oneshot(), teardown() ------------------- *)

LifecycleFrame ==
    UNCHANGED <<validator_ids, account_ids, account_balance, validator_balance,
                config_genesis, config_node, has_nodes, all_ports, imports,
                collects, failed_step, chain_vars>>

\* A call that reads validator_nodes before prepare() has set the attribute
\* raises AttributeError.
RaiseAtCall(name, err) ==
    /\ call = "none"
    /\ pc' = Idle
    /\ call' = "none"
    /\ last_call' = name
    /\ outcome' = err
    /\ started_in_call' = 0

\* spinup(): for node in validator_nodes.values(): node.start()
CallSpinup ==
    /\ IF has_nodes
       THEN BeginCall("spinup", At("start", 1, 0))
       ELSE RaiseAtCall("spinup", "AttributeError")
    /\ UNCHANGED validator_nodes
    /\ LifecycleFrame

\* The nodes spinup() starts, as positions of the validator ordering.
StartNext(i) == IF i < N THEN At("start", i + 1, 0) ELSE Idle

StepStart ==
    /\ call \in {"spinup", "oneshot"} /\ pc.op = "start"
    /\ SetNode(validator_ids[pc.i], NodeStart(NodeAt(pc.i)))
    /\ started_in_call' = started_in_call + 1
    /\ Goto(StartNext(pc.i))
    /\ LifecycleFrame

\* node.start() fails to spawn the process: the error leaves spinup().
StartFails ==
    /\ call \in {"spinup", "oneshot"} /\ pc.op = "start"
    /\ Return("ProcessError")
    /\ UNCHANGED <<validator_nodes, started_in_call>>
    /\ LifecycleFrame

\* teardown(): for node in validator_nodes.values(): node.close()
CallTeardown ==
    /\ IF has_nodes
       THEN BeginCall("teardown", At("close", 1, 0))
       ELSE RaiseAtCall("teardown", "AttributeError")
    /\ UNCHANGED validator_nodes
    /\ LifecycleFrame

\* Variant: the loop left after its first node.
CloseNextReturns(i) == Idle

\* The nodes teardown() closes, as positions of the validator ordering.
CloseNext(i) == IF i < N THEN At("close", i + 1, 0) ELSE Idle

StepClose ==
    /\ call = "teardown" /\ pc.op = "close"
    /\ SetNode(validator_ids[pc.i], NodeClose(NodeAt(pc.i)))
    /\ Goto(CloseNext(pc.i))
    /\ UNCHANGED started_in_call
    /\ LifecycleFrame

(* ------------------------------ the chain ------------------------------ *)

\* Response codes of the chain: 0 is success, 32 a wrong account sequence,
\* 5 a message that fails to execute (insufficient funds).
CodeOk == 0

CodeWrongSequence == 32

CodeFailedMsg == 5

\* The chain executes one transaction: a sequence other than the account's
\* current one is rejected and changes nothing; otherwise the account's
\* sequence advances and the messages are executed.
DeliverCode(seqs, tx) ==
    IF tx.sequence # seqs[tx.account] THEN CodeWrongSequence
    ELSE IF tx.msg = "valid" THEN CodeOk ELSE CodeFailedMsg

DeliverSeqs(seqs, tx) ==
    IF tx.sequence # seqs[tx.account] THEN seqs
    ELSE [seqs EXCEPT ![tx.account] = @ + 1]

\* The account sequences after a block of transactions, executed in order.
RECURSIVE SeqsAfter(_, _)
SeqsAfter(seqs, txs) ==
    IF txs = << >> THEN seqs
    ELSE SeqsAfter(DeliverSeqs(seqs, Head(txs)), Tail(txs))

\* The code the k-th transaction of a block gets.
CodeInBlock(seqs, txs, k) == DeliverCode(SeqsAfter(seqs, SubSeq(txs, 1, k - 1)), txs[k])

(* ------------------- Testnet.broadcast_transaction() ------------------- *)

\* The concurrent callers of broadcast_transaction (threads of the driver).
Clients == {"t1", "t2"}

NoEntry ==
    [account |-> -1, msg |-> "none", sequence |-> -1, code |-> -1, submits |-> 0,
     raised |-> FALSE, error |-> "none"]

IdleClient ==
    [pc |-> "idle", account |-> -1, msg |-> "none", target |-> -1,
     sequence |-> -1, submits |-> 0, response |-> -1, open_channels |-> 0,
     calls |-> 0, last |-> NoEntry, prev |-> NoEntry]

BroadcastFrame == UNCHANGED <<testnet_vars, accounts, ready>>

SetClient(c, r) == clients' = [clients EXCEPT ![c] = r]

\* The call of c ends: entry is what its caller observes.
Finish(c, r, entry) ==
    SetClient(c, [r EXCEPT !.pc = "idle", !.prev = r.last, !.last = entry])

RECURSIVE SumCalls(_)
SumCalls(cs) ==
    IF cs = {} THEN 0
    ELSE LET c == CHOOSE c \in cs : TRUE IN clients[c].calls + SumCalls(cs \ {c})

\* broadcast_transaction calls begun so far, by all callers.
CallsMade == SumCalls(Clients)

\* get_grpc_channel(validator_id): a channel to the node's gRPC address.
GrpcPort(validator_id) == validator_nodes[validator_id].config["grpc"].port

\* The node's gRPC endpoint answers requests: its process runs and has
\* finished starting up.
Responds(validator_id) ==
    validator_nodes[validator_id].proc = "running" /\ validator_id \in ready

\* Variant: the wallet built and the channel opened whatever the mnemonic.
BeginOutcomeUnchecked(account) == "opened"

\* Lines 310-320: if account.mnemonic is None: raise ValueError; otherwise
\* the wallet is built and the channel opened.
BeginOutcome(account) ==
    IF account.mnemonic = "none" THEN "ValueError" ELSE "opened"

\* Lines 299-320: the target node resolved (default: the lead), the account
\* looked up, its mnemonic checked, the wallet built, the channel opened.
BroadcastBegin(c) ==
    /\ has_nodes
    /\ clients[c].pc = "idle"
    /\ CallsMade < MaxBroadcasts
    /\ \E a \in {account_ids[k] : k \in 1..Len(account_ids)} :
       \E m \in {"valid", "invalid"} :
          LET r == [clients[c] EXCEPT
                       !.account = a, !.msg = m, !.sequence = -1, !.submits = 0,
                       !.response = -1, !.calls = @ + 1]
          IN IF BeginOutcome(accounts[a]) = "opened"
             THEN SetClient(c, [r EXCEPT !.pc = "opened",
                                         !.target = GrpcPort(lead),
                                         !.open_channels = @ + 1])
             ELSE Finish(c, r, [account |-> a, msg |-> m, sequence |-> -1,
                                code |-> -1, submits |-> 0, raised |-> TRUE,
                                error |-> BeginOutcome(accounts[a])])
    /\ UNCHANGED <<chain_seq, mempool>>
    /\ BroadcastFrame

\* Lines 322-326: the account query; the sequence is the committed one.
BroadcastQuery(c) ==
    /\ clients[c].pc = "opened"
    /\ Responds(lead)
    /\ SetClient(c, [clients[c] EXCEPT !.pc = "queried",
                                      !.sequence = chain_seq[clients[c].account]])
    /\ UNCHANGED <<chain_seq, mempool>>
    /\ BroadcastFrame

\* Lines 328-335: the transaction signed with the sequence just queried.
BroadcastSign(c) ==
    /\ clients[c].pc = "queried"
    /\ SetClient(c, [clients[c] EXCEPT !.pc = "signed"])
    /\ UNCHANGED <<chain_seq, mempool>>
    /\ BroadcastFrame

\* Variant: a mode that returns once the mempool has accepted the bytes.
BroadcastModeSync == "BROADCAST_MODE_SYNC"

\* Line 350: the submission mode.
BroadcastMode == "BROADCAST_MODE_BLOCK"

\* Lines 348-352: the signed bytes submitted.  In block mode the call waits
\* for the block that holds the transaction.
BroadcastSubmit(c) ==
    /\ clients[c].pc = "signed"
    /\ Responds(lead)
    /\ mempool' = Append(mempool, [client |-> c, account |-> clients[c].account,
                                   sequence |-> clients[c].sequence,
                                   msg |-> clients[c].msg])
    /\ SetClient(c, IF BroadcastMode = "BROADCAST_MODE_BLOCK"
                    THEN [clients[c] EXCEPT !.pc = "waiting", !.submits = @ + 1]
                    ELSE [clients[c] EXCEPT !.pc = "responded", !.submits = @ + 1,
                                            !.response = CodeOk])
    /\ UNCHANGED chain_seq
    /\ BroadcastFrame

\* The chain commits a block: every pending transaction is executed in
\* order, and each waiting submitter gets its transaction's response.
ChainCommit ==
    /\ mempool # << >>
    /\ chain_seq' = SeqsAfter(chain_seq, mempool)
    /\ clients' =
          [c \in Clients |->
              IF clients[c].pc = "waiting"
              THEN LET k == CHOOSE k \in 1..Len(mempool) : mempool[k].client = c
                   IN [clients[c] EXCEPT !.pc = "responded",
                                         !.response = CodeInBlock(chain_seq, mempool, k)]
              ELSE clients[c]]
    /\ mempool' = << >>
    /\ BroadcastFrame

\* Variant: a rejected transaction is signed and submitted again.
AfterResponseRetry(code) == IF code # CodeOk THEN "opened" ELSE "idle"

\* Lines 352-356: whatever the code, the call goes on to close and return.
AfterResponse(code) == "idle"

\* Lines 354-356: channel.close(); return result
BroadcastReturn(c) ==
    /\ clients[c].pc = "responded"
    /\ IF AfterResponse(clients[c].response) = "idle"
       THEN Finish(c, [clients[c] EXCEPT !.open_channels = @ - 1],
                   [account |-> clients[c].account, msg |-> clients[c].msg,
                    sequence |-> clients[c].sequence, code |-> clients[c].response,
                    submits |-> clients[c].submits, raised |-> FALSE,
                    error |-> "none"])
       ELSE SetClient(c, [clients[c] EXCEPT !.pc = AfterResponse(clients[c].response)])
    /\ UNCHANGED <<chain_seq, mempool>>
    /\ BroadcastFrame

\* The endpoint is unreachable when the account query or the submission is
\* attempted: asyncio.run raises and the error leaves the call.
BroadcastTransportError(c) ==
    /\ clients[c].pc \in {"opened", "signed"}
    /\ Finish(c, clients[c],
              [account |-> clients[c].account, msg |-> clients[c].msg,
               sequence |-> clients[c].sequence, code |-> -1,
               submits |-> clients[c].submits, raised |-> TRUE,
               error |-> "TransportError"])
    /\ UNCHANGED <<chain_seq, mempool>>
    /\ BroadcastFrame

\* A started node finishes starting up: from now on its query interface
\* responds.  Neither spinup() nor oneshot() waits for this.
NodeReady(id) ==
    /\ has_nodes
    /\ validator_nodes[id].proc = "running"
    /\ id \notin ready
    /\ ready' = ready \cup {id}
    /\ UNCHANGED <<testnet_vars, chain_seq, mempool, clients, accounts>>

\* finalize_accounts(): one Account per account id.  An account has a
\* mnemonic, or is an identity whose key material lies on disk only.
AccountsInputs ==
    {[a \in {account_ids[k] : k \in 1..Len(account_ids)} |-> [mnemonic |-> "words"]],
     [a \in {account_ids[k] : k \in 1..Len(account_ids)} |->
         [mnemonic |-> IF a = account_ids[1] THEN "none" ELSE "words"]]}

\* A running single-validator Testnet, as oneshot() leaves it.
RECURSIVE FundAccounts(_, _)
FundAccounts(node, k) ==
    IF k = 0 THEN node
    ELSE add_account(FundAccounts(node, k - 1), account_balance, "acc", account_ids[k])

RunningTestnet ==
    /\ validator_ids = Range(1)
    /\ account_ids = Range(MaxAccounts)
    /\ account_balance = 2
    /\ validator_balance = 1
    /\ config_genesis = {}
    /\ config_node = {}
    /\ has_nodes = TRUE
    /\ validator_nodes =
          [id \in {0} |->
              NodeStart(collect_gentx(add_validator(
                  FundAccounts(add_account(NodeInit(Node(id)), account_balance, "val", id),
                               Len(account_ids)),
                  validator_balance, id)))]
    /\ all_ports = << >>
    /\ imports = {}
    /\ collects = {0}
    /\ pc = Idle
    /\ call = "none"
    /\ last_call = "oneshot"
    /\ outcome = "ok"
    /\ failed_step = "none"
    /\ started_in_call = 1

\* Every account of the genesis starts with sequence 0.
BroadcastInit ==
    /\ RunningTestnet
    /\ chain_seq = [a \in {account_ids[k] : k \in 1..Len(account_ids)} |-> 0]
    /\ mempool = << >>
    /\ clients = [c \in Clients |-> IdleClient]
    /\ accounts \in AccountsInputs
    /\ ready = {}

BroadcastNext ==
    \/ \E c \in Clients : BroadcastBegin(c)
    \/ \E c \in Clients : BroadcastQuery(c)
    \/ \E c \in Clients : BroadcastSign(c)
    \/ \E c \in Clients : BroadcastSubmit(c)
    \/ ChainCommit
    \/ \E c \in Clients : BroadcastReturn(c)
    \/ \E c \in Clients : BroadcastTransportError(c)
    \/ \E id \in Ids : NodeReady(id)

SpecBroadcast == BroadcastInit /\ [][BroadcastNext]_vars

(* --------------------------- specification ----------------------------- *)

ChainIdle ==
    /\ chain_seq = << >>
    /\ mempool = << >>
    /\ clients = << >>
    /\ accounts = << >>
    /\ ready = {}

Init == TestnetInit /\ ChainIdle

Next ==
    \/ CallPrepare
    \/ CallOneshot
    \/ CallSpinup
    \/ CallTeardown
    \/ PrepareBegin
    \/ StepInit
    \/ StepSetGenesis
    \/ StepFundValidator
    \/ StepFundAccount
    \/ StepCopyGenesis
    \/ StepAllocPorts
    \/ StepConfigure
    \/ StepAddValidator
    \/ StepRewriteMemo
    \/ StepSign
    \/ StepExchange
    \/ StepCollect
    \/ StepFails
    \/ StepStart
    \/ StartFails
    \/ StepClose

Spec == Init /\ [][Next]_vars

\* Testnet(..., account_balance=..., validator_balance=...): the two amounts
\* are independent constructor arguments; both orders of magnitude occur.
BalanceInputs ==
    {[account |-> 2, validator |-> 1], [account |-> 1, validator |-> 2]}

\* A Testnet constructed with either pair of balances and no overrides.
StakeInit ==
    /\ validator_ids \in ValidatorInputs
    /\ account_ids \in AccountInputs
    /\ \E b \in BalanceInputs :
          account_balance = b.account /\ validator_balance = b.validator
    /\ config_genesis = {}
    /\ config_node = {}
    /\ has_nodes = FALSE
    /\ validator_nodes = << >>
    /\ all_ports = << >>
    /\ imports = {}
    /\ collects = {}
    /\ pc = Idle
    /\ call = "none"
    /\ last_call = "none"
    /\ outcome = "none"
    /\ failed_step = "none"
    /\ started_in_call = 0
    /\ ChainIdle

SpecStake == StakeInit /\ [][Next]_vars

(* ------------------------------ claims --------------------------------- *)

\* prepare() has run to its end: collect_gentx succeeded on every node.
Prepared == has_nodes /\ collects = Ids

\* The validator set a genesis encodes: operators with their stakes.
ValidatorSet(node) == {<<g.val, g.stake>> : g \in node.genesis.gen_txs}

\* C1: once prepare() has completed without error, every node's genesis
\* encodes the same validator set (operators, stakes) and the same initial
\* balances as every other node's genesis.
C1_GenesisAgreement ==
    Prepared =>
        \A a \in Ids : \A b \in Ids :
            /\ ValidatorSet(validator_nodes[a]) = ValidatorSet(validator_nodes[b])
            /\ validator_nodes[a].genesis.balances = validator_nodes[b].genesis.balances

C1_Witness ==
    /\ Prepared /\ N = 3
    /\ call = "none" /\ last_call = "prepare" /\ outcome = "ok"
    /\ \A a \in Ids : Cardinality(ValidatorSet(validator_nodes[a])) = 3

AllPairs == {p \in Ids \X Ids : p[1] # p[2]}

\* C2: no node runs collect_gentx until every ordered pair of distinct nodes
\* (A, B) has had A import B's gentx.
C2_CollectAfterExchange == collects # {} => imports = AllPairs

C2_Witness == collects # {} /\ N = 3 /\ Cardinality(imports) = 6

\* The exchange loop of the running prepare() has just finished.
ExchangeFinished == InPrepare /\ pc = At("collect", 1, 0)

\* C3: when the exchange loop finishes, every node's gentx directory holds
\* the gentx of every validator, and no node imported its own gentx from
\* itself.
C3_ExchangeComplete ==
    /\ ExchangeFinished =>
          \A a \in Ids : {g.val : g \in validator_nodes[a].gentx} = Ids
    /\ \A p \in imports : p[1] # p[2]

C3_Witness == ExchangeFinished /\ N = 3 /\ Cardinality(imports) = 6

\* Every (node, role) a port is assigned to.
Endpoints == Ids \X RoleSet

PortOf(e) == validator_nodes[e[1]].config[e[2]].port

\* C4: after prepare(), the ports assigned across all nodes and all port
\* roles contain no duplicates.
C4_PortsUnique ==
    Prepared => \A e \in Endpoints : \A f \in Endpoints : e # f => PortOf(e) # PortOf(f)

C4_Witness ==
    /\ Prepared /\ N = 3
    /\ \E a \in Ids : validator_nodes[a].config["rpc"].port # DefaultAddress["rpc"].port

\* C5 as stated: teardown() completes without raising in every lifecycle
\* state of the Testnet.
C5_TeardownNeverRaises == last_call = "teardown" => outcome = "ok"

Stopped == \A a \in Ids : validator_nodes[a].proc # "running"

\* C6: on a Testnet brought up by prepare()/oneshot(), teardown() succeeds
\* and closes every node, and a teardown() that follows a teardown() succeeds
\* too and leaves every node record as the first one left it.
C6_TeardownIdempotent ==
    /\ [](has_nodes /\ call = "none" /\ last_call = "teardown"
            => outcome = "ok" /\ Stopped)
    /\ [][call = "teardown" /\ last_call = "teardown"
            => validator_nodes' = validator_nodes /\ outcome' = "ok"]_vars

\* The second of two teardown() calls in a row, at its last node, on a
\* Testnet every node of which had been started.
C6_Witness ==
    /\ call = "teardown" /\ last_call = "teardown" /\ pc = At("close", N, 0)
    /\ Prepared /\ N = 3
    /\ \A a \in Ids : validator_nodes[a].proc = "closed"

\* C7: once a ceremony step has failed, prepare() executes no further step
\* (it is no longer inside the ceremony), the error has reached the caller,
\* the ceremony has not completed, and a failing oneshot() started no node.
C7_AbortOnFailure ==
    failed_step # "none" =>
        /\ ~InPrepare
        /\ call \notin {"prepare", "oneshot"}
        /\ (call = "none" /\ last_call \in {"prepare", "oneshot"}
              => outcome \notin {"ok", "none"})
        /\ (failed_step # "begin" => ~Prepared)
        /\ (call = "none" /\ last_call = "oneshot" => started_in_call = 0)

C7_Witness ==
    /\ failed_step = "exchange" /\ N = 3
    /\ call = "none" /\ last_call = "oneshot" /\ outcome = "ProcessError"

\* The calls of c that have returned and are still on record.
Entries(c) == {e \in {<<c, "prev", clients[c].prev>>, <<c, "last", clients[c].last>>} :
                  e[3] # NoEntry}

AllEntries == UNION {Entries(c) : c \in Clients}

\* c is the only caller so far: its calls follow one another, nothing else
\* reaches the chain.
OnlyCaller(c) == \A d \in Clients \ {c} : clients[d].calls = 0

\* C8: two sequential broadcasts from one account are signed with sequence
\* N and then N+1 and (their messages being valid) both succeed, the chain's
\* counter having advanced by the time a call returns; of the transactions
\* signed with the same sequence of one account, at most one is not rejected
\* with the wrong-sequence code.
C8_SequentialSequences ==
    /\ \A c \in Clients :
          LET r == clients[c] IN
          OnlyCaller(c) /\ r.pc = "idle" =>
             /\ (r.last # NoEntry /\ ~r.last.raised
                   => chain_seq[r.last.account] = r.last.sequence + 1)
             /\ (r.prev # NoEntry /\ ~r.prev.raised /\ ~r.last.raised
                 /\ r.prev.account = r.last.account
                   => /\ r.last.sequence = r.prev.sequence + 1
                      /\ (r.prev.msg = "valid" => r.prev.code = CodeOk)
                      /\ (r.last.msg = "valid" => r.last.code = CodeOk))
    /\ \A e \in AllEntries : \A f \in AllEntries :
          (/\ <<e[1], e[2]>> # <<f[1], f[2]>>
           /\ ~e[3].raised /\ ~f[3].raised
           /\ e[3].account = f[3].account /\ e[3].sequence = f[3].sequence)
             => e[3].code = CodeWrongSequence \/ f[3].code = CodeWrongSequence

C8_Witness ==
    \E c \in Clients :
        /\ OnlyCaller(c) /\ clients[c].pc = "idle"
        /\ clients[c].prev.sequence = 0 /\ clients[c].prev.code = CodeOk
        /\ clients[c].last.sequence = 1 /\ clients[c].last.code = CodeOk
        /\ clients[c].prev.account = clients[c].last.account

HasSigned(c) == clients[c].pc \in {"signed", "waiting", "responded"}

\* C9 as stated: two concurrent broadcasts from one account never sign with
\* the same sequence, and no submission is rejected for a stale sequence.
C9_SerializedPerAccount ==
    /\ \A c \in Clients : \A d \in Clients \ {c} :
          HasSigned(c) /\ HasSigned(d) /\ clients[c].account = clients[d].account
             => clients[c].sequence # clients[d].sequence
    /\ \A e \in AllEntries : e[3].code # CodeWrongSequence

\* C10: a call submits at most once, and exactly once when it returns a
\* response; a call the chain answered returns normally, with the code the
\* chain gave, zero or not.
C10_RejectionIsData ==
    \A c \in Clients :
        LET r == clients[c] IN
        /\ r.submits <= 1
        /\ \A e \in Entries(c) : ~e[3].raised => e[3].submits = 1
        /\ (r.pc = "idle" /\ r.response # -1
              => ~r.last.raised /\ r.last.code = r.response)

C10_Witness ==
    \E c \in Clients :
        /\ clients[c].pc = "idle" /\ ~clients[c].last.raised
        /\ clients[c].last.code = CodeWrongSequence
        /\ clients[c].last.submits = 1


\* The gentxs are being exchanged or collected by the running prepare().
Exchanging == InPrepare /\ pc.op \in {"exchange", "collect"}

\* C12: whenever a gentx is imported by a peer or collected, its signature
\* was made over its current content (after its last edit), on every node
\* and for every validator, the non-lead ones with rewritten memos included;
\* between its memo rewrite and its re-signing a gentx does not validate.
C12_ResignedBeforeExchange ==
    /\ Exchanging =>
          \A a \in Ids : \A g \in validator_nodes[a].gentx : ValidGentx(g)
    /\ InPrepare /\ pc.op = "sign" =>
          \A g \in OwnGentx(NodeAt(pc.i), validator_ids[pc.i]) : ~ValidGentx(g)

\* A peer has imported a non-lead node's gentx whose memo was rewritten.
C12_Witness ==
    /\ Exchanging /\ N = 3
    /\ \E a \in Ids : \E g \in validator_nodes[a].gentx :
          /\ g.val # a /\ g.val # lead
          /\ g.memo.port # DefaultAddress["p2p"].port
          /\ ValidGentx(g)


\* C14 as stated: a node process runs only on a Testnet whose ceremony has
\* completed on every node, and a node closed by teardown() is not started
\* again.
C14_LifecycleOrder ==
    /\ [](has_nodes =>
            \A a \in Ids : validator_nodes[a].proc = "running" => Prepared)
    /\ [][has_nodes /\ has_nodes' =>
            \A a \in Ids : validator_nodes[a].proc = "closed"
                              => validator_nodes'[a].proc # "running"]_vars


\* The first id of the validator ordering.
FirstId == validator_ids[1]

\* The genesis init wrote for a node, untouched since.
Pristine(a) == validator_nodes[a].genesis = NodeInit(Node(a)).genesis

\* The genesis of the first validator's node carries every declared override
\* and funds every validator and every plain account.
FullyFunded ==
    LET g == validator_nodes[FirstId].genesis IN
    /\ g.origin = FirstId
    /\ g.balances =
          {[group |-> "val", id |-> v, amount |-> account_balance] : v \in Ids}
          \cup {[group |-> "acc", id |-> account_ids[k], amount |-> account_balance] :
                   k \in 1..Len(account_ids)}
    /\ \A o \in config_genesis : o \in g.params

\* C15: the node of the first validator id is the single source of genesis
\* content: while overrides and add_account are applied no other node's
\* genesis is touched, all of them are applied before the first
\* copy_genesis_from, every other node copies from that node, and right
\* after the copy step every genesis equals the fully funded lead genesis.
C15_LeadIsSource ==
    /\ InPrepare /\ pc.op \in {"set_genesis", "fund_validator", "fund_account"}
          => \A a \in Ids \ {FirstId} : Pristine(a)
    /\ InPrepare /\ pc.op = "copy_genesis"
          => /\ FullyFunded
             /\ \A k \in 2..N :
                   IF k < pc.i
                   THEN validator_nodes[validator_ids[k]].genesis
                           = validator_nodes[FirstId].genesis
                   ELSE Pristine(validator_ids[k])
    /\ InPrepare /\ pc.op = "alloc_ports"
          => /\ FullyFunded
             /\ \A a \in Ids :
                   validator_nodes[a].genesis = validator_nodes[FirstId].genesis

\* Right after the copy step of a three-validator Testnet with an account
\* and an override.
C15_Witness ==
    /\ InPrepare /\ pc.op = "alloc_ports" /\ N = 3
    /\ Len(account_ids) = 1 /\ config_genesis # {}
    /\ validator_nodes[validator_ids[3]].genesis.origin = FirstId


\* The configure loop of the running prepare() has ended.
Configured ==
    InPrepare /\ pc.op \in {"add_validator", "rewrite_memo", "sign", "exchange", "collect"}

\* Every declared port field of the node holds the port of its role in one
\* block of an allocation, the host part of the address untouched.
FreshlyConfigured(a) ==
    \E flat \in get_free_ports(Len(Roles) * (N - 1)) :
       \E b \in 1..(N - 1) :
          \A j \in 1..Len(Roles) :
             validator_nodes[a].config[Roles[j]]
                = [host |-> DefaultAddress[Roles[j]].host,
                   port |-> Reshape(flat, Len(Roles))[b][j]]

\* C16: port rewriting never touches the lead node's listening addresses
\* (they stay the defaults init wrote), and before any add_validator has
\* produced a gentx every declared port field of every non-lead node holds a
\* freshly allocated port.
C16_PortRewriteFrame ==
    /\ has_nodes /\ validator_nodes[FirstId].inited
          => validator_nodes[FirstId].config = DefaultAddress
    /\ has_nodes /\ (Configured \/ Prepared
                     \/ \E a \in Ids : validator_nodes[a].gentx # {})
          => \A a \in Ids \ {FirstId} :
                /\ FreshlyConfigured(a)
                /\ \A r \in RoleSet :
                      validator_nodes[a].config[r].port # DefaultAddress[r].port

\* The first add_validator of a three-validator Testnet with node overrides
\* is about to run.
C16_Witness ==
    /\ InPrepare /\ pc = At("add_validator", 1, 0) /\ N = 3
    /\ config_node # {}
    /\ validator_nodes[FirstId].other = "custom"
    /\ \A a \in Ids : validator_nodes[a].gentx = {}

\* C17: after prepare() the memo of every non-lead node's own gentx
\* advertises the p2p port set in that node's config, the freshly allocated
\* one, and no two nodes' own gentx memos advertise the same port.
C17_MemoAdvertisesP2p ==
    Prepared =>
       /\ \A a \in Ids \ {FirstId} :
             /\ OwnGentx(validator_nodes[a], a) # {}
             /\ \A g \in OwnGentx(validator_nodes[a], a) :
                   /\ g.memo.port = validator_nodes[a].config["p2p"].port
                   /\ g.memo.port # DefaultAddress["p2p"].port
       /\ \A a, b \in Ids :
             a # b => \A ga \in OwnGentx(validator_nodes[a], a) :
                         \A gb \in OwnGentx(validator_nodes[b], b) :
                            ga.memo.port # gb.memo.port

C17_Witness ==
    /\ Prepared /\ N = 3
    /\ \E a, b \in Ids \ {FirstId} :
          /\ a # b
          /\ \E g \in OwnGentx(validator_nodes[a], a) :
                g.memo.port = validator_nodes[a].config["p2p"].port

\* How many nodes from position i on are still to pop a block.
LeftToPop(i) == Cardinality({k \in i..N : validator_ids[k] # FirstId})

\* The ports written into the declared port fields of a node.
PortsOfNode(a) == {validator_nodes[a].config[r].port : r \in RoleSet}

\* C19: port allocation and consumption match exactly: N-1 blocks of one
\* port per role are allocated, at every iteration of the configure loop the
\* blocks left are as many as the non-lead nodes still to come, so pop never
\* meets an empty list, no block is left when the loop ends, and no two
\* nodes got the same block.
C19_PortsMatch ==
    /\ outcome # "IndexError"
    /\ InPrepare /\ pc.op = "configure"
          => /\ Len(all_ports) = LeftToPop(pc.i)
             /\ \A b \in 1..Len(all_ports) : Len(all_ports[b]) = Len(Roles)
             /\ pc.i = 1 => Len(all_ports) = N - 1
    /\ Configured
          => /\ all_ports = << >>
             /\ \A a, b \in Ids \ {FirstId} :
                   a # b => PortsOfNode(a) \cap PortsOfNode(b) = {}

C19_Witness ==
    /\ Configured /\ N = 3 /\ all_ports = << >>
    /\ \A a \in Ids \ {FirstId} : FreshlyConfigured(a)


\* The balances a genesis funds the validator with.
FundedWith(genesis, v) ==
    {b.amount : b \in {x \in genesis.balances : x.group = "val" /\ x.id = v}}

\* Every gentx staged so far stakes no more than its validator is funded
\* with in the genesis of the node holding it.
StakeWithinFunding ==
    has_nodes =>
       \A a \in Ids : \A g \in validator_nodes[a].gentx :
          /\ FundedWith(validator_nodes[a].genesis, g.val) # {}
          /\ \A amount \in FundedWith(validator_nodes[a].genesis, g.val) :
                g.stake <= amount

\* C18 as stated: for every configured pair of balances no gentx stakes more
\* than its validator was funded with.
C18_StakeNeverExceedsFunding == StakeWithinFunding

\* C18 amended: every gentx stakes exactly validator_balance and every
\* validator is funded with exactly account_balance, whatever the pair; the
\* stake stays within the funding whenever validator_balance is at most
\* account_balance, and exceeds it on every staged gentx otherwise.
C18_StakeAndFundingAsConfigured ==
    has_nodes =>
       /\ \A a \in Ids :
             /\ \A g \in validator_nodes[a].gentx : g.stake = validator_balance
             /\ \A b \in validator_nodes[a].genesis.balances :
                   b.amount = account_balance
       /\ validator_balance <= account_balance => StakeWithinFunding
       /\ validator_balance > account_balance =>
             \A a \in Ids : \A g \in validator_nodes[a].gentx :
                \A amount \in FundedWith(validator_nodes[a].genesis, g.val) :
                   g.stake > amount

\* A prepared three-validator Testnet whose validators stake within what
\* they own.
C18_Witness ==
    /\ Prepared /\ N = 3
    /\ validator_balance < account_balance
    /\ \A a \in Ids : \E g \in validator_nodes[a].gentx :
          g.val = a /\ FundedWith(validator_nodes[a].genesis, a) = {account_balance}


\* The account has no usable signing material.
NoMnemonic(a) == accounts[a].mnemonic = "none"

\* C11: a call for an account without a mnemonic ends in the step that
\* begins it, with the configuration error raised (a ValueError): no
\* channel is opened, nothing is queried or submitted, no transaction of the
\* account is ever pending, and the account's sequence on the chain never
\* changes.
C11_NoMnemonicFailsFirst ==
    /\ [](\A a \in DOMAIN accounts :
             NoMnemonic(a) =>
                /\ chain_seq[a] = 0
                /\ \A k \in 1..Len(mempool) : mempool[k].account # a)
    /\ [](\A c \in DOMAIN clients :
             clients[c].pc # "idle" => ~NoMnemonic(clients[c].account))
    /\ [][\A c \in DOMAIN clients :
             (/\ clients'[c].calls = clients[c].calls + 1
              /\ NoMnemonic(clients'[c].account))
             => /\ clients'[c].pc = "idle"
                /\ clients'[c].open_channels = clients[c].open_channels
                /\ clients'[c].last.raised
                /\ clients'[c].last.error = "ValueError"
                /\ clients'[c].last.sequence = -1
                /\ clients'[c].last.submits = 0
                /\ mempool' = mempool
                /\ chain_seq' = chain_seq]_vars

\* A caller has just been refused for an account without a mnemonic.
C11_Witness ==
    \E c \in DOMAIN clients :
       /\ clients[c].pc = "idle" /\ clients[c].calls > 0
       /\ NoMnemonic(clients[c].last.account)
       /\ clients[c].last.error = "ValueError"
       /\ clients[c].open_channels = 0
       /\ chain_seq[clients[c].last.account] = 0

\* C13: once spinup() or oneshot() has returned, a broadcast that has opened
\* its channel finds the target node's query interface responding.
C13_UsableAfterSpinup ==
    \A c \in DOMAIN clients : clients[c].pc = "opened" => Responds(FirstId)

\* C20: no caller is left with an open channel once its call has ended.
C20_ChannelsClosed ==
    \A c \in DOMAIN clients : clients[c].pc = "idle" => clients[c].open_channels = 0

====
